---------------------------- MODULE Spec2Model ----------------------------
(***************************************************************************)
(* A model of backend/app.py of the Fact-Checker service: the startup      *)
(* loading of the corpus index, retrieve_relevant_facts,                   *)
(* get_claim_category, log_trend_data, get_fact_check_from_gemini and      *)
(* get_trends, with the trend log file modelled as the text it holds.      *)
(***************************************************************************)
EXTENDS Integers, Sequences, FiniteSets, TLC

(***************************************************************************)
(* Bounds of the model.                                                    *)
(***************************************************************************)
NumWorkers == 2
PadLen == 5
MaxRows == 3
MaxSim == 2
MaxTopK == 4
MaxTextLen == 3
MaxCenti == 120

Workers == 1..NumWorkers

Min(a, b) == IF a < b THEN a ELSE b
Max(a, b) == IF a > b THEN a ELSE b

(***************************************************************************)
(* Python text helpers: s[:n], and str.strip() on a text given as a        *)
(* sequence of characters (a word stands for its run of letters).          *)
(***************************************************************************)
Whitespace == {" ", "\n", "\t"}

Take(s, n) == SubSeq(s, 1, Min(Len(s), n))

RECURSIVE LStrip(_)
LStrip(s) ==
    IF s # <<>> /\ Head(s) \in Whitespace THEN LStrip(Tail(s)) ELSE s

RECURSIVE RStrip(_)
RStrip(s) ==
    IF s # <<>> /\ s[Len(s)] \in Whitespace
    THEN RStrip(SubSeq(s, 1, Len(s) - 1))
    ELSE s

NoStrip(s) == s

Strip(s) == RStrip(LStrip(s))

(***************************************************************************)
(* The trend log file.  Its text is a sequence of tokens, each a record:   *)
(* the brackets and the comma of a JSON array; "nl" (a newline), "ind"     *)
(* (one indent of four spaces) and "sp" (a blank) as whitespace; "{}" for  *)
(* a JSON value that is not an array; "junk" for text that is not JSON;    *)
(* and "entry" for one serialised TrendEntry with its four fields.         *)
(***************************************************************************)
Tok(c) == [t |-> c]

JsonWs == {"nl", "ind", "sp"}

IsEntry(tok) == tok.t = "entry"

NonWs(text) == SelectSeq(text, LAMBDA tok : tok.t \notin JsonWs)

\* The text json.dump(data, f, indent=4) writes for a list of entries.
RECURSIVE DumpItems(_)
DumpItems(data) ==
    IF data = <<>> THEN <<>>
    ELSE <<Tok("nl"), Tok("ind"), Head(data)>>
         \o (IF Len(data) > 1 THEN <<Tok(",")>> ELSE <<>>)
         \o DumpItems(Tail(data))

JsonDump(data) ==
    IF data = <<>> THEN <<Tok("["), Tok("]")>>
    ELSE <<Tok("[")>> \o DumpItems(data) \o <<Tok("nl"), Tok("]")>>

\* json.load on the text: a list, another JSON value, or JSONDecodeError.
IsArrayText(txt) ==
    /\ Len(txt) >= 2
    /\ txt[1].t = "["
    /\ txt[Len(txt)].t = "]"
    /\ \/ Len(txt) = 2
       \/ /\ Len(txt) % 2 = 1
          /\ \A i \in 2..(Len(txt) - 1) :
                IF i % 2 = 0 THEN IsEntry(txt[i]) ELSE txt[i].t = ","

ArrayItems(txt) == [i \in 1..((Len(txt) - 1) \div 2) |-> txt[2 * i]]

JsonLoad(text) ==
    LET txt == NonWs(text) IN
    IF IsArrayText(txt) THEN [kind |-> "list", value |-> ArrayItems(txt)]
    ELSE IF txt = <<Tok("{}")>> THEN [kind |-> "object", value |-> <<>>]
    ELSE [kind |-> "JSONDecodeError", value |-> <<>>]

\* f.seek(0) followed by the writes of buf[1..upto], with no truncate: the
\* old text past the written part stays in the file.
WriteAtStart(old, buf, upto) ==
    SubSeq(buf, 1, upto) \o SubSeq(old, upto + 1, Len(old))

(***************************************************************************)
(* Python numbers.  json.loads turns a JSON number written with a decimal  *)
(* point into a float (an IEEE-754 double) and one written without into an *)
(* int.  A double is kept exactly, as neg, man and exp with value          *)
(* (-1)^neg * man * 2^exp; man is a natural number given by its digits in  *)
(* base 4096, least significant first, since TLC's integers are too narrow *)
(* for 53 bits.                                                            *)
(***************************************************************************)
RECURSIVE LimbsOf(_)
LimbsOf(n) == IF n = 0 THEN <<>> ELSE <<n % 4096>> \o LimbsOf(n \div 4096)

RECURSIVE NatOf(_)
NatOf(b) == IF b = <<>> THEN 0 ELSE Head(b) + 4096 * NatOf(Tail(b))

RECURSIVE Trim(_)
Trim(b) ==
    IF b # <<>> /\ b[Len(b)] = 0 THEN Trim(SubSeq(b, 1, Len(b) - 1)) ELSE b

\* The number of bits of a natural below 4096, and of a trimmed number.
SmallBitLen(v) == CHOOSE k \in 0..12 : v < 2 ^ k /\ (k = 0 \/ v >= 2 ^ (k - 1))

BitLen(b) ==
    IF b = <<>> THEN 0 ELSE 12 * (Len(b) - 1) + SmallBitLen(b[Len(b)])

\* Bit i of b, counted from 1 at the least significant end.
BitAt(b, i) ==
    LET limb == (i - 1) \div 12 + 1
    IN IF limb > Len(b) THEN 0 ELSE (b[limb] \div 2 ^ ((i - 1) % 12)) % 2

\* a * c + carry for a small natural c.
RECURSIVE MulSmall(_, _, _)
MulSmall(a, c, carry) ==
    IF a = <<>> THEN LimbsOf(carry)
    ELSE LET cur == Head(a) * c + carry
         IN <<cur % 4096>> \o MulSmall(Tail(a), c, cur \div 4096)

\* a divided by a small natural c, by long division from the top digit:
\* the quotient and the remainder.
RECURSIVE DivSmall(_, _)
DivSmall(a, c) ==
    IF a = <<>> THEN [quo |-> <<>>, rem |-> 0]
    ELSE LET hi == DivSmall(Tail(a), c)
             cur == 4096 * hi.rem + Head(a)
         IN [quo |-> <<cur \div c>> \o hi.quo, rem |-> cur % c]

ShiftL(b, k) ==
    [i \in 1..(k \div 12) |-> 0] \o MulSmall(b, 2 ^ (k % 12), 0)

ShiftR(b, k) ==
    IF k \div 12 >= Len(b) THEN <<>>
    ELSE Trim(DivSmall(SubSeq(b, k \div 12 + 1, Len(b)), 2 ^ (k % 12)).quo)

\* b / 2^k rounded to nearest, ties to even; sticky says that bits below b
\* were already lost.
RoundShift(b, k, sticky) ==
    LET quo == ShiftR(b, k)
        guard == IF k >= 1 THEN BitAt(b, k) ELSE 0
        low == sticky \/ \E i \in 1..(k - 1) : BitAt(b, i) = 1
        odd == BitAt(quo, 1) = 1
    IN IF guard = 1 /\ (low \/ odd) THEN Trim(MulSmall(quo, 1, 1)) ELSE quo

\* The double nearest to the exact value b * 2^e (b not zero).
RoundTo53(b, e, sticky) ==
    LET k == Max(BitLen(b) - 53, 0)
    IN [man |-> RoundShift(b, k, sticky), exp |-> e + k]

\* float("<num/100>") for a natural num: the correctly rounded double.
DecimalToDouble(neg, num) ==
    IF num = 0 THEN [kind |-> "float", neg |-> neg, man |-> <<>>, exp |-> 0]
    ELSE LET scaled == DivSmall(ShiftL(LimbsOf(num), 64), 100)
             dbl == RoundTo53(Trim(scaled.quo), -64, scaled.rem # 0)
         IN [kind |-> "float", neg |-> neg, man |-> dbl.man, exp |-> dbl.exp]

PyInt(n) == [kind |-> "int", val |-> n]

PyOther(k) == [kind |-> k]

\* x * c in double arithmetic, c a small natural (exact as a double).
FloatTimes(x, c) ==
    IF x.man = <<>> THEN x
    ELSE LET dbl == RoundTo53(Trim(MulSmall(x.man, c, 0)), x.exp, FALSE)
         IN [kind |-> "float", neg |-> x.neg, man |-> dbl.man, exp |-> dbl.exp]

\* int(x): truncation toward zero.
FloatToInt(x) ==
    LET mag == IF x.exp >= 0 THEN NatOf(ShiftL(x.man, x.exp))
               ELSE NatOf(ShiftR(x.man, -x.exp))
    IN PyInt(IF x.neg THEN -mag ELSE mag)

\* 0.0 <= x <= 1.0 on doubles (-0.0 compares equal to 0.0).
IsPowerOfTwo(b) == \A i \in 1..(BitLen(b) - 1) : BitAt(b, i) = 0

InUnitInterval(x) ==
    \/ x.man = <<>>
    \/ /\ ~x.neg
       /\ \/ BitLen(x.man) + x.exp <= 0
          \/ BitLen(x.man) + x.exp = 1 /\ IsPowerOfTwo(x.man)

(***************************************************************************)
(* Score normalisation of get_fact_check_from_gemini (lines 176-179) on    *)
(* the parsed result: has_ca says "claim_analysis" is a key of it, and     *)
(* has_score that "score" is a key of that.                                *)
(***************************************************************************)
ScoreScale == 100

NormalizeScoreAnyNumber(score) ==
    IF score.kind = "float" /\ InUnitInterval(score)
    THEN FloatToInt(FloatTimes(score, ScoreScale))
    ELSE IF score.kind = "int" /\ score.val \in 0..1
    THEN PyInt(score.val * ScoreScale)
    ELSE score

NormalizeScore(score) ==
    IF score.kind = "float" /\ InUnitInterval(score)
    THEN FloatToInt(FloatTimes(score, ScoreScale))
    ELSE score

Normalize(res) ==
    IF res.has_ca /\ res.has_score
    THEN [res EXCEPT !.score = NormalizeScore(res.score)]
    ELSE res

(***************************************************************************)
(* get_claim_category (lines 74-92).  The model's answer is either an      *)
(* exception or a text; a claim and a text are sequences of characters.    *)
(***************************************************************************)
FinancialScam == <<"Financial", " ", "Scam">>

valid_categories ==
    {<<"Health">>, FinancialScam, <<"Political">>, <<"Social">>,
     <<"Technology">>, <<"Other">>}

Raises == [raises |-> TRUE, text |-> <<>>]

Answer(text) == [raises |-> FALSE, text |-> text]

\* Lines 88-90: the category for the text the model answered.
CategoryOfText(text) ==
    LET category == Strip(text)
    IN IF category \in valid_categories THEN category ELSE <<"Other">>

\* Line 75: no model call is made.
SkipsModel(key, claim) == ~key \/ Strip(claim) = <<>>

\* The whole function, given the answer the model would give.
get_claim_category(key, claim, answer) ==
    IF SkipsModel(key, claim) THEN <<"Uncategorized">>
    ELSE IF answer.raises THEN <<"Uncategorized">>
    ELSE CategoryOfText(answer.text)

(***************************************************************************)
(* The corpus index: the globals df, vectorizer and X (line 49), and the   *)
(* startup code that fills them (lines 50-62).  load_error records the     *)
(* statement at which loading raised ("none" when it did not).             *)
(***************************************************************************)
StartupSteps ==
    <<"read_csv_IFND", "read_csv_news", "rename", "concat",
      "TfidfVectorizer", "fit_transform">>

NoIndex ==
    [df_set |-> FALSE, nrows |-> 0, vectorizer |-> "None", X_set |-> FALSE,
     load_error |-> "none"]

\* What one statement of the try block assigns once it has succeeded.
StartupAssign(g, step, n) ==
    CASE step = "concat" -> [g EXCEPT !.df_set = TRUE, !.nrows = n]
      [] step = "TfidfVectorizer" -> [g EXCEPT !.vectorizer = "unfitted"]
      [] step = "fit_transform" ->
            [g EXCEPT !.vectorizer = "fitted", !.X_set = TRUE]
      [] OTHER -> g

RECURSIVE RunStartup(_, _, _, _)
RunStartup(g, steps, failAt, n) ==
    IF steps = <<>> THEN g
    ELSE IF Head(steps) = failAt THEN [g EXCEPT !.load_error = failAt]
    ELSE RunStartup(StartupAssign(g, Head(steps), n), Tail(steps), failAt, n)

LoadDatasets(failAt, n) == RunStartup(NoIndex, StartupSteps, failAt, n)

(***************************************************************************)
(* retrieve_relevant_facts (lines 66-72).  similarities is the vector      *)
(* cosine_similarity returns, one level per corpus row; order is the       *)
(* permutation argsort returns for it: numpy's default sort is not stable, *)
(* so any ascending order of the rows is a possible one.                   *)
(***************************************************************************)
Reverse(a) == [i \in 1..Len(a) |-> a[Len(a) + 1 - i]]

\* Python's a[start:].
PySliceFrom(a, start) ==
    LET from == IF start < 0 THEN Max(Len(a) + start, 0)
                ELSE Min(start, Len(a))
    IN SubSeq(a, from + 1, Len(a))

Argsorts(similarities) ==
    LET n == Len(similarities)
    IN {p \in [1..n -> 1..n] :
          /\ \A i, j \in 1..n : i # j => p[i] # p[j]
          /\ \A i, j \in 1..n :
                i < j => similarities[p[i]] <= similarities[p[j]]}

\* Line 71: similarities.argsort()[-top_k:][::-1].
TopIndicesUnreversed(order, top_k) == PySliceFrom(order, -top_k)

TopIndices(order, top_k) == Reverse(PySliceFrom(order, -top_k))

NotLoaded(g) == ~g.df_set \/ g.vectorizer = "None"

\* vectorizer.transform on a vectorizer that was never fitted, and
\* cosine_similarity against X = None, both raise.
RetrieveRaises(g) ==
    ~NotLoaded(g) /\ (g.vectorizer # "fitted" \/ ~g.X_set)

retrieve_relevant_facts(g, order, top_k) ==
    IF NotLoaded(g) THEN [raised |-> FALSE, rows |-> <<>>]
    ELSE IF RetrieveRaises(g) THEN [raised |-> TRUE, rows |-> <<>>]
    ELSE [raised |-> FALSE, rows |-> TopIndices(order, top_k)]

(***************************************************************************)
(* The state.  The program's own: api_key (set or not), index (df,         *)
(* vectorizer, X), the log file (fperm and file), log_lock (0 when free,   *)
(* else the worker holding it), and per worker running                     *)
(* get_fact_check_from_gemini its place pc, its locals loc and what it     *)
(* returned, result; trends is what the last get_trends returned.  clock   *)
(* is the time datetime.now() reads.  History kept for the properties:     *)
(* file0 (the log at the start), acquired (the entries of the              *)
(* log_trend_data calls in the order they took the lock, with the worker), *)
(* committed (the array the last finished append wrote), ncalls (model     *)
(* calls started per worker).  call is one call of a function taken alone. *)
(***************************************************************************)
VARIABLES api_key, index, fperm, file, log_lock, pc, loc, result, trends,
          clock, file0, acquired, committed, ncalls, call

vars == <<api_key, index, fperm, file, log_lock, pc, loc, result, trends,
          clock, file0, acquired, committed, ncalls, call>>

ExcerptLimit == 500

\* The model's answers to the fact-check prompt: an exception, or a text
\* with the value json.loads gives for it (kind "none": it is not JSON).
NotJson == [kind |-> "none"]

Parsed(has_ca, has_verdict, verdict, has_score, score) ==
    [kind |-> "dict", has_ca |-> has_ca, has_verdict |-> has_verdict,
     verdict |-> verdict, has_score |-> has_score, score |-> score]

GarbageText(n) == [i \in 1..n |-> IF i % 2 = 1 THEN "<" ELSE "!"]

FactRaises == [raises |-> TRUE, text |-> <<>>, parsed |-> NotJson]

FactGarbage(n) ==
    [raises |-> FALSE, text |-> GarbageText(n), parsed |-> NotJson]

FactJson(value) ==
    [raises |-> FALSE, text |-> <<"{", "}">>, parsed |-> value]

FactCheckResponses ==
    {FactRaises,
     FactGarbage(ExcerptLimit + 1),
     FactJson(Parsed(TRUE, TRUE, "False", TRUE, DecimalToDouble(FALSE, 12))),
     FactJson(Parsed(TRUE, TRUE, "", FALSE, PyOther("none")))}

CategoryAnswers == {Raises, Answer(<<"Health", "\n">>)}

Claims == {<<"earth", " ", "flat">>, <<" ">>}

\* What get_fact_check_from_gemini returns.
NoResult == [kind |-> "none", msg |-> "", excerpt |-> <<>>, value |-> NotJson]

ErrorResult(msg, excerpt) ==
    [kind |-> "error", msg |-> msg, excerpt |-> excerpt, value |-> NotJson]

OkResult(value) ==
    [kind |-> "result", msg |-> "", excerpt |-> <<>>, value |-> value]

\* response.text[:500] (line 190).
ExcerptWhole(text) == text

Excerpt(text) == Take(text, ExcerptLimit)

\* The order of lines 181-187: the verdict test, then get_claim_category,
\* then log_trend_data, which takes log_lock and then opens the file.
StepAfterLockFirst(step) ==
    CASE step = "verdict" -> "lock_wait"
      [] step = "acquire" -> "categorize"
      [] step = "categorize" -> "open"

StepAfter(step) ==
    CASE step = "verdict" -> "categorize"
      [] step = "categorize" -> "lock_wait"
      [] step = "acquire" -> "open"

\* new_entry (lines 96-101); source_type is "text" (line 202).
NewEntry(now, verdict, category) ==
    [t |-> "entry", timestamp |-> now, verdict |-> verdict,
     category |-> category, source |-> "text"]

OldEntry == NewEntry(0, "True", <<"Other">>)

NoLocals ==
    [claim |-> <<>>, response |-> FactRaises, value |-> NotJson,
     category |-> <<>>, new_entry |-> OldEntry, buf |-> <<>>, wpos |-> 0]

Padded == <<Tok("[")>> \o [i \in 1..PadLen |-> Tok("sp")] \o <<Tok("]")>>

\* The log a request can find: as lines 27-29 create it, as an earlier
\* run wrote it, a valid array with blanks in it, text that is not JSON, a
\* JSON object, no file, a file that cannot be written, one that cannot
\* be read.
InitialLogs ==
    {[perm |-> "rw", text |-> JsonDump(<<>>)],
     [perm |-> "rw", text |-> JsonDump(<<OldEntry>>)],
     [perm |-> "rw", text |-> Padded],
     [perm |-> "rw", text |-> <<Tok("junk")>>],
     [perm |-> "rw", text |-> <<Tok("{}")>>],
     [perm |-> "missing", text |-> <<>>],
     [perm |-> "readonly", text |-> JsonDump(<<OldEntry>>)],
     [perm |-> "writeonly", text |-> JsonDump(<<OldEntry>>)]}

ArrayOrEmpty(text) ==
    IF JsonLoad(text).kind = "list" THEN JsonLoad(text).value ELSE <<>>

NoCall == [fn |-> "none"]

Init ==
    /\ api_key \in BOOLEAN
    /\ index \in {LoadDatasets(f, 1) : f \in {"none", "fit_transform"}}
    /\ \E l \in InitialLogs :
          /\ fperm = l.perm
          /\ file = l.text
          /\ file0 = l
          /\ committed = ArrayOrEmpty(l.text)
    /\ log_lock = 0
    /\ pc = [w \in Workers |-> "idle"]
    /\ loc = [w \in Workers |-> NoLocals]
    /\ result = [w \in Workers |-> NoResult]
    /\ trends = [kind |-> "none", value |-> <<>>]
    /\ clock = 1
    /\ acquired = <<>>
    /\ ncalls = [w \in Workers |-> 0]
    /\ call = NoCall

\* The function returns r: its locals are gone (the model's answer is kept,
\* as the record of the request).
Returned(l) == [NoLocals EXCEPT !.response = l.response]

Finish(w, r) ==
    /\ result' = [result EXCEPT ![w] = r]
    /\ pc' = [pc EXCEPT ![w] = "done"]

\* Lines 112-116: the credentials guard and the retrieval, which is outside
\* the try block.
Request(w, claim) ==
    /\ pc[w] = "idle"
    /\ IF ~api_key
       THEN /\ Finish(w, ErrorResult("not_configured", <<>>))
            /\ UNCHANGED <<loc, ncalls>>
       ELSE IF RetrieveRaises(index)
       THEN /\ pc' = [pc EXCEPT ![w] = "raised"]
            /\ UNCHANGED <<loc, result, ncalls>>
       ELSE /\ pc' = [pc EXCEPT ![w] = "fact_call"]
            /\ loc' = [loc EXCEPT ![w].claim = claim]
            /\ ncalls' = [ncalls EXCEPT ![w] = @ + 1]
            /\ UNCHANGED result
    /\ UNCHANGED <<api_key, index, fperm, file, log_lock, trends, clock,
                   file0, acquired, committed, call>>

\* Lines 173-183 and 187-192: the model's answer, json.loads, the score
\* normalisation and the verdict test.
Got(w, response) == [loc[w] EXCEPT !.response = response]

FactReturn(w, response) ==
    /\ pc[w] = "fact_call"
    /\ IF response.raises
       THEN /\ Finish(w, ErrorResult("api_error", <<>>))
            /\ loc' = [loc EXCEPT ![w] = Returned(Got(w, response))]
       ELSE IF response.parsed.kind = "none"
       THEN /\ Finish(w, ErrorResult("parse_error", Excerpt(response.text)))
            /\ loc' = [loc EXCEPT ![w] = Returned(Got(w, response))]
       ELSE LET value == Normalize(response.parsed)
            IN IF value.has_ca /\ value.has_verdict /\ value.verdict # ""
               THEN /\ loc' = [loc EXCEPT ![w].response = response,
                                          ![w].value = value]
                    /\ pc' = [pc EXCEPT ![w] = StepAfter("verdict")]
                    /\ UNCHANGED result
               ELSE /\ loc' = [loc EXCEPT ![w] = Returned(Got(w, response))]
                    /\ Finish(w, OkResult(value))
    /\ UNCHANGED <<api_key, index, fperm, file, log_lock, trends, clock,
                   file0, acquired, committed, ncalls, call>>

\* Line 75 and lines 77-87: get_claim_category up to its model call.
Categorize(w) ==
    /\ pc[w] = "categorize"
    /\ IF SkipsModel(api_key, loc[w].claim)
       THEN /\ loc' = [loc EXCEPT ![w].category =
                          get_claim_category(api_key, loc[w].claim, Raises)]
            /\ pc' = [pc EXCEPT ![w] = StepAfter("categorize")]
            /\ UNCHANGED ncalls
       ELSE /\ pc' = [pc EXCEPT ![w] = "category_call"]
            /\ ncalls' = [ncalls EXCEPT ![w] = @ + 1]
            /\ UNCHANGED loc
    /\ UNCHANGED <<api_key, index, fperm, file, log_lock, result, trends,
                   clock, file0, acquired, committed, call>>

\* Lines 87-92: the model's answer to the category prompt.
CategoryReturn(w, answer) ==
    /\ pc[w] = "category_call"
    /\ loc' = [loc EXCEPT ![w].category =
                  get_claim_category(api_key, loc[w].claim, answer)]
    /\ pc' = [pc EXCEPT ![w] = StepAfter("categorize")]
    /\ UNCHANGED <<api_key, index, fperm, file, log_lock, result, trends,
                   clock, file0, acquired, committed, ncalls, call>>

\* Lines 95-101: log_trend_data takes log_lock and builds new_entry.
Acquire(w) ==
    /\ pc[w] = "lock_wait"
    /\ log_lock = 0
    /\ log_lock' = w
    /\ LET entry == NewEntry(clock, loc[w].value.verdict, loc[w].category)
       IN /\ loc' = [loc EXCEPT ![w].new_entry = entry]
          /\ acquired' = Append(acquired, [worker |-> w, entry |-> entry])
    /\ clock' = clock + 1
    /\ pc' = [pc EXCEPT ![w] = StepAfter("acquire")]
    /\ UNCHANGED <<api_key, index, fperm, file, result, trends, file0,
                   committed, ncalls, call>>

\* Leaving log_trend_data by an exception: the with statement frees the
\* lock, and line 191 turns the exception into an error result.
Escape(w) ==
    /\ log_lock' = 0
    /\ loc' = [loc EXCEPT ![w] = Returned(loc[w])]
    /\ Finish(w, ErrorResult("api_error", <<>>))

\* Lines 102-105: open(..., 'r+') and json.load.  IOError and
\* JSONDecodeError go to the except clause; data.append on a value that is
\* no list raises AttributeError, which no clause here catches.
OpenLoad(w) ==
    /\ pc[w] = "open"
    /\ LET loaded == JsonLoad(file)
       IN IF fperm # "rw" \/ loaded.kind = "JSONDecodeError"
          THEN /\ pc' = [pc EXCEPT ![w] = "fallback"]
               /\ UNCHANGED <<loc, log_lock, result>>
          ELSE IF loaded.kind # "list"
          THEN Escape(w)
          ELSE /\ loc' = [loc EXCEPT
                     ![w].buf = JsonDump(Append(loaded.value,
                                                loc[w].new_entry)),
                     ![w].wpos = 0]
               /\ pc' = [pc EXCEPT ![w] = "write"]
               /\ UNCHANGED <<log_lock, result>>
    /\ UNCHANGED <<api_key, index, fperm, file, trends, clock, file0,
                   acquired, committed, ncalls, call>>

\* Lines 108-110: open(..., 'w') creates or empties the file; on a file
\* that cannot be written it raises inside the except clause.
Fallback(w) ==
    /\ pc[w] = "fallback"
    /\ IF fperm = "readonly"
       THEN /\ Escape(w)
            /\ UNCHANGED <<file, fperm>>
       ELSE /\ file' = <<>>
            /\ fperm' = IF fperm = "missing" THEN "rw" ELSE fperm
            /\ loc' = [loc EXCEPT ![w].buf = JsonDump(<<loc[w].new_entry>>),
                                  ![w].wpos = 0]
            /\ pc' = [pc EXCEPT ![w] = "write"]
            /\ UNCHANGED <<log_lock, result>>
    /\ UNCHANGED <<api_key, index, trends, clock, file0, acquired,
                   committed, ncalls, call>>

\* Lines 106-107 and 110: the dumped text reaches the file from its start,
\* in one or several writes as the file object's buffer is flushed.
Write(w) ==
    /\ pc[w] = "write"
    /\ \E upto \in (loc[w].wpos + 1)..Len(loc[w].buf) :
          /\ file' = WriteAtStart(file, loc[w].buf, upto)
          /\ loc' = [loc EXCEPT ![w].wpos = upto]
    /\ UNCHANGED <<api_key, index, fperm, log_lock, pc, result, trends,
                   clock, file0, acquired, committed, ncalls, call>>

\* The file is closed, log_lock is freed, and line 187 returns the result.
Release(w) ==
    /\ pc[w] = "write"
    /\ loc[w].wpos = Len(loc[w].buf)
    /\ log_lock' = 0
    /\ committed' = ArrayOrEmpty(loc[w].buf)
    /\ loc' = [loc EXCEPT ![w] = Returned(loc[w])]
    /\ Finish(w, OkResult(loc[w].value))
    /\ UNCHANGED <<api_key, index, fperm, file, trends, clock, file0,
                   acquired, ncalls, call>>

\* get_trends (lines 260-266): it reads the file without log_lock, and any
\* exception gives the empty list.
ReadTrends(perm, text) ==
    IF perm \in {"rw", "readonly"} /\ JsonLoad(text).kind # "JSONDecodeError"
    THEN JsonLoad(text)
    ELSE [kind |-> "list", value |-> <<>>]

Writing == {w \in Workers : pc[w] = "write"}

get_trends ==
    /\ trends' = ReadTrends(fperm, file)
    /\ UNCHANGED <<api_key, index, fperm, file, log_lock, pc, loc, result,
                   clock, file0, acquired, committed, ncalls, call>>

Next ==
    \/ \E w \in Workers, claim \in Claims : Request(w, claim)
    \/ \E w \in Workers, response \in FactCheckResponses :
          FactReturn(w, response)
    \/ \E w \in Workers : Categorize(w)
    \/ \E w \in Workers, answer \in CategoryAnswers :
          CategoryReturn(w, answer)
    \/ \E w \in Workers : Acquire(w)
    \/ \E w \in Workers : OpenLoad(w)
    \/ \E w \in Workers : Fallback(w)
    \/ \E w \in Workers : Write(w)
    \/ \E w \in Workers : Release(w)
    \/ get_trends

Spec == Init /\ [][Next]_vars

(***************************************************************************)
(* One function taken alone, called once with any of its inputs (it reads  *)
(* nothing a call changes, so a later call does what a first one does);    *)
(* the other variables stay as they are at rest.                           *)
(***************************************************************************)
AtRest ==
    /\ api_key = TRUE
    /\ fperm = "rw"
    /\ file = JsonDump(<<>>)
    /\ file0 = [perm |-> "rw", text |-> JsonDump(<<>>)]
    /\ committed = <<>>
    /\ log_lock = 0
    /\ pc = [w \in Workers |-> "idle"]
    /\ loc = [w \in Workers |-> NoLocals]
    /\ result = [w \in Workers |-> NoResult]
    /\ trends = [kind |-> "none", value |-> <<>>]
    /\ clock = 1
    /\ acquired = <<>>
    /\ ncalls = [w \in Workers |-> 0]
    /\ call = NoCall

RestUnchanged ==
    UNCHANGED <<api_key, index, fperm, file, log_lock, pc, loc, result,
                trends, clock, file0, acquired, committed, ncalls>>

StepSet == {StartupSteps[i] : i \in 1..Len(StartupSteps)}

\* Startup with the loading failing at any statement or at none, then
\* calls of retrieve_relevant_facts.
InitRetrieve ==
    /\ AtRest
    /\ index \in {LoadDatasets(f, n) :
                    f \in StepSet \cup {"none"}, n \in 1..MaxRows}

Retrieve(similarities, order, top_k) ==
    /\ call = NoCall
    /\ call' = [fn |-> "retrieve", similarities |-> similarities,
                order |-> order, top_k |-> top_k,
                ret |-> retrieve_relevant_facts(index, order, top_k)]
    /\ RestUnchanged

NextRetrieve ==
    /\ call = NoCall
    /\ \E similarities \in [1..index.nrows -> 0..MaxSim],
          top_k \in (-MaxTopK)..MaxTopK :
          \E order \in Argsorts(similarities) :
             Retrieve(similarities, order, top_k)

SpecRetrieve == InitRetrieve /\ [][NextRetrieve]_vars

\* Calls of get_claim_category with every short answer of the model.
Alphabet ==
    {" ", "\n", "Health", "Financial", "Scam", "Political", "Social",
     "Technology", "Other", "Bogus"}

Texts == UNION {[1..n -> Alphabet] : n \in 0..MaxTextLen}

InitClassify == AtRest /\ index = NoIndex

Classify(key, claim, answer) ==
    /\ call = NoCall
    /\ call' = [fn |-> "classify", key |-> key, claim |-> claim,
                answer |-> answer,
                ret |-> get_claim_category(key, claim, answer)]
    /\ RestUnchanged

NextClassify ==
    /\ call = NoCall
    /\ \E key \in BOOLEAN, claim \in Claims,
          answer \in {Raises} \cup {Answer(text) : text \in Texts} :
          Classify(key, claim, answer)

SpecClassify == InitClassify /\ [][NextClassify]_vars

\* The score normalisation on what json.loads gives for the model's JSON:
\* a score written with a decimal point (num hundredths), one written as
\* an integer, or a value that is no number; and the normalisation applied
\* again to its own result.
FloatLiterals ==
    {[kind |-> "float", neg |-> neg, num |-> num] :
        neg \in BOOLEAN, num \in 0..MaxCenti}

IntLiterals == {[kind |-> "int", num |-> n] : n \in {-1, 0, 1, 12, 100, 101}}

OtherLiterals == {[kind |-> k] : k \in {"str", "none", "bool"}}

\* json.loads on one score literal (line 174).
ParseScore(lit) ==
    CASE lit.kind = "float" -> DecimalToDouble(lit.neg, lit.num)
      [] lit.kind = "int" -> PyInt(lit.num)
      [] OTHER -> PyOther(lit.kind)

InitScore == AtRest /\ index = NoIndex

NormalizeCall(lit, has_ca, has_score) ==
    LET arg == Parsed(has_ca, has_ca, "False", has_score, ParseScore(lit))
    IN /\ call = NoCall
       /\ call' = [fn |-> "normalize", json |-> lit, arg |-> arg,
                   ret |-> Normalize(arg)]
       /\ RestUnchanged

NormalizeAgain ==
    /\ call.fn = "normalize"
    /\ call' = [fn |-> "normalize_again", json |-> call.json,
                arg |-> call.ret, ret |-> Normalize(call.ret)]
    /\ RestUnchanged

NextScore ==
    \/ \E lit \in FloatLiterals \cup IntLiterals \cup OtherLiterals :
          \/ NormalizeCall(lit, TRUE, TRUE)
          \/ lit.kind = "none" /\ NormalizeCall(lit, TRUE, FALSE)
          \/ lit.kind = "none" /\ NormalizeCall(lit, FALSE, FALSE)
    \/ NormalizeAgain

SpecScore == InitScore /\ [][NextScore]_vars

(***************************************************************************)
(* Properties of the trend log and of get_fact_check_from_gemini (Spec).   *)
(***************************************************************************)
InLogSection(w) == pc[w] \in {"open", "fallback", "write"}

ModelCallInFlight(w) == pc[w] \in {"fact_call", "category_call"}

Entries(acq) == [i \in 1..Len(acq) |-> acq[i].entry]

LoggedBy(w) == \E i \in 1..Len(acquired) : acquired[i].worker = w

StartsAsArray == file0.perm = "rw" /\ JsonLoad(file0.text).kind = "list"

\* The log at the start is the text json.dump writes for its own array.
StartsAsDumped == StartsAsArray /\ file0.text = JsonDump(ArrayOrEmpty(file0.text))

\* C1: starting from a log holding a valid JSON array, once the
\* log_trend_data calls made so far have all finished the file holds exactly
\* the initial entries followed by one entry per call, in the order in
\* which the calls took log_lock.
C1_AppendsKeptInLockOrder ==
    (StartsAsArray /\ log_lock = 0)
        => /\ JsonLoad(file).kind = "list"
           /\ JsonLoad(file).value
                 = ArrayOrEmpty(file0.text) \o Entries(acquired)

\* The same, for a log that starts as json.dump writes it (the case in
\* which the text written is never shorter than the text it replaces).
DumpedLogKeptInLockOrder ==
    (StartsAsDumped /\ log_lock = 0)
        => /\ JsonLoad(file).kind = "list"
           /\ JsonLoad(file).value
                 = ArrayOrEmpty(file0.text) \o Entries(acquired)

\* C2: no worker holds log_lock while one of its model calls is in flight:
\* the holder is inside log_trend_data with both of its model calls over,
\* and a worker that has returned does not hold the lock.
C2_NoModelCallUnderLock ==
    \A w \in Workers :
        /\ log_lock = w => ~ModelCallInFlight(w) /\ InLogSection(w)
        /\ pc[w] \in {"idle", "done", "raised"} => log_lock # w

\* A worker is writing the log under the lock, its two model calls made,
\* while another worker's model call is in flight.
C2_Witness ==
    \E w, v \in Workers :
        /\ log_lock = w
        /\ pc[w] = "write"
        /\ ncalls[w] = 2
        /\ ModelCallInFlight(v)

\* C4: whenever the model returned JSON with a non-empty verdict, the
\* function returns the normalised result and not an error, whatever the
\* state of the log file.
C4_LoggingNeverFailsTheResult ==
    \A w \in Workers :
        (/\ pc[w] = "done"
         /\ ~loc[w].response.raises
         /\ loc[w].response.parsed.kind = "dict"
         /\ loc[w].response.parsed.has_ca
         /\ loc[w].response.parsed.has_verdict
         /\ loc[w].response.parsed.verdict # "")
            => result[w] = OkResult(Normalize(loc[w].response.parsed))

IsPrefix(a, b) == Len(a) <= Len(b) /\ a = SubSeq(b, 1, Len(a))

InProgress ==
    IF Writing = {} THEN committed
    ELSE ArrayOrEmpty(loc[CHOOSE w \in Writing : TRUE].buf)

\* C10: a get_trends that runs while appends go on returns the log as it
\* was before the append in progress or as it is after it, never an empty
\* or shorter list (stated for a log that starts as json.dump writes it).
C10_ReadsSeeWholeLog ==
    [][(StartsAsDumped /\ trends' # trends)
          => /\ trends'.kind = "list"
             /\ trends'.value \in {committed, InProgress}]_vars

(***************************************************************************)
(* Properties of the corpus index and of retrieve_relevant_facts           *)
(* (SpecRetrieve).                                                         *)
(***************************************************************************)
Retrieved == call.fn = "retrieve"

Sim(i) == call.similarities[i]

Rows == call.ret.rows

RowSet == {Rows[i] : i \in 1..Len(Rows)}

NonIncreasing ==
    \A a, b \in 1..Len(Rows) : a < b => Sim(Rows[a]) >= Sim(Rows[b])

\* C3: if the startup loading failed at any statement, every later call of
\* retrieve_relevant_facts returns an empty result and does not raise.
C3_FailedLoadGivesEmptyResults ==
    (Retrieved /\ index.load_error # "none")
        => ~call.ret.raised /\ Rows = <<>>

Loaded == index.load_error = "none"

\* C6: for every query and every integer top_k the call returns
\* at most top_k rows, in non-increasing similarity, and no row when the
\* index is absent (stated for an index that is loaded or absent).
C6_AtMostTopKRows ==
    (Retrieved /\ (Loaded \/ NotLoaded(index)))
        => /\ ~call.ret.raised
           /\ Len(Rows) <= call.top_k
           /\ NonIncreasing
           /\ NotLoaded(index) => Rows = <<>>

\* argsort gave the stable order: equal similarities in corpus order.
StableOrder ==
    \A i, j \in 1..Len(call.order) :
        (i < j /\ Sim(call.order[i]) = Sim(call.order[j]))
            => call.order[i] < call.order[j]

Answered == Retrieved /\ ~call.ret.raised /\ ~NotLoaded(index) /\ call.top_k >= 1

\* C7 as stated: among equally similar rows the one with the lower corpus
\* position is selected first and comes earlier in the result (stated for
\* top_k >= 1 and for the stable order of argsort).
C7_TiesInCorpusOrder ==
    (Answered /\ StableOrder)
        => /\ \A a, b \in 1..Len(Rows) :
                 (a < b /\ Sim(Rows[a]) = Sim(Rows[b])) => Rows[a] < Rows[b]
           /\ \A i \in RowSet, j \in (1..index.nrows) \ RowSet :
                 Sim(i) = Sim(j) => i < j

\* C7 as the code has it: for top_k >= 1 the result has min(top_k, n)
\* distinct rows in non-increasing similarity, none left out is more
\* similar than one returned, and ties come in the reverse of argsort's
\* order: under the stable order the row with the HIGHER corpus position
\* is selected first and comes earlier.
C7_TiesInReverseArgsortOrder ==
    Answered
        => /\ Len(Rows) = Min(call.top_k, index.nrows)
           /\ Cardinality(RowSet) = Len(Rows)
           /\ NonIncreasing
           /\ \A i \in RowSet, j \in (1..index.nrows) \ RowSet :
                 Sim(j) <= Sim(i)
           /\ StableOrder
                 => /\ \A a, b \in 1..Len(Rows) :
                          (a < b /\ Sim(Rows[a]) = Sim(Rows[b]))
                              => Rows[a] > Rows[b]
                    /\ \A i \in RowSet, j \in (1..index.nrows) \ RowSet :
                          Sim(i) = Sim(j) => i > j

\* A call under the stable order that returns two equally similar rows and
\* leaves out a third as similar as they are.
C7_Witness ==
    /\ Answered
    /\ StableOrder
    /\ \E a, b \in 1..Len(Rows) : a < b /\ Sim(Rows[a]) = Sim(Rows[b])
    /\ \E i \in RowSet, j \in (1..index.nrows) \ RowSet : Sim(i) = Sim(j)

(***************************************************************************)
(* Properties of get_claim_category (SpecClassify).                        *)
(***************************************************************************)
Classified ==
    /\ call.fn = "classify"
    /\ call.key
    /\ \E i \in 1..Len(call.claim) : call.claim[i] \notin Whitespace
    /\ ~call.answer.raises

\* C8 as stated: the result is the label when the model's raw text is
\* exactly one of the six labels, and "Other" whenever it is not.
C8_ExactLabelOrOther ==
    Classified
        => call.ret = IF call.answer.text \in valid_categories
                      THEN call.answer.text ELSE <<"Other">>

\* text is label with only whitespace before and after it.
Surrounds(text, label) ==
    \E a \in 0..Len(text) :
        /\ a + Len(label) <= Len(text)
        /\ SubSeq(text, a + 1, a + Len(label)) = label
        /\ \A i \in 1..a : text[i] \in Whitespace
        /\ \A i \in (a + Len(label) + 1)..Len(text) : text[i] \in Whitespace

\* C8 as the code has it: the result is the label when the raw text is one
\* of the six labels with nothing but whitespace around it, and "Other"
\* for every other text.
C8_LabelUpToWhitespaceOrOther ==
    Classified
        => /\ call.ret \in valid_categories
           /\ \A label \in valid_categories \ {<<"Other">>} :
                 call.ret = label <=> Surrounds(call.answer.text, label)

\* The model answered a label followed by a newline.
C8_Witness ==
    /\ Classified
    /\ call.answer.text = <<"Health", "\n">>
    /\ call.ret = <<"Health">>

(***************************************************************************)
(* Properties of the score normalisation (SpecScore).                      *)
(***************************************************************************)
Scored == call.arg.has_ca /\ call.arg.has_score

UnitFloat ==
    /\ call.json.kind = "float"
    /\ call.json.num <= 100
    /\ ~call.json.neg \/ call.json.num = 0

\* C9: a score that is a float in [0,1] becomes the integer its product
\* with 100 truncates to, which lies in [0,100] (for num hundredths it is
\* num or, the product falling just short, num - 1; 0.12 becomes 12); any
\* other score, and a result without a score, is left as it is; and
\* normalising a normalised result changes nothing.
C9_ScoreNormalization ==
    /\ (call.fn = "normalize" /\ Scored /\ UnitFloat)
          => /\ call.ret.score.kind = "int"
             /\ call.ret.score.val \in 0..100
             /\ call.ret.score.val \in {call.json.num - 1, call.json.num}
             /\ (~call.json.neg /\ call.json.num = 12)
                   => call.ret.score.val = 12
             /\ call.ret = [call.arg EXCEPT !.score = call.ret.score]
    /\ (call.fn = "normalize" /\ ~(Scored /\ UnitFloat))
          => call.ret = call.arg
    /\ call.fn = "normalize_again" => call.ret = call.arg

\* 0.12 was normalised to 12, and normalised again.
C9_Witness ==
    /\ call.fn = "normalize_again"
    /\ call.json = [kind |-> "float", neg |-> FALSE, num |-> 12]
    /\ call.ret.score = PyInt(12)

=============================================================================
